---------------------------- MODULE Spec2Model ----------------------------
(***************************************************************************)
(* Model of create_unity_backup.py: main() drives one UnityBackup session  *)
(* through start_driver, login, backup_workflow, encryption_keystore_backup*)
(* and close.  The browser, the page and the file system are the           *)
(* environment: every driver or file-system call either completes or       *)
(* raises, chosen nondeterministically.                                    *)
(***************************************************************************)
EXTENDS Integers, Sequences, FiniteSets, TLC

VARIABLES
    pc,            \* position of the single thread of control
    password_file, \* text of the file --password-file names
    password,      \* the password main() hands to UnityBackup
    unity_url,     \* self.unity_url
    browser,       \* self.browser
    driver,        \* self.driver: "None", "live" or "quit"
    calls,         \* methods main() has invoked, in order
    ret,           \* what each of the three bool methods returned
    exit_status,   \* status the process exits with
    close_count,   \* number of times close() ran
    printed,       \* lines main() printed
    attempts,      \* locators tried so far in the chain in progress
    matched,       \* first locator of that chain whose wait resolved (0: none)
    btn,           \* the chain's element variable is not None
    hit,           \* locator whose attempt ended the loop with break (0: none)
    clicked,       \* a click on the step's target completed
    scan,          \* brute-force fallback: outcome per candidate visited
    capture,       \* diagnostic capture of the step in progress
    log,           \* messages logged since main() last called a method or got its result
    downloads,     \* names in ~/Downloads
    arrivals,      \* files that appeared during the run
    since_click,   \* files that appeared after the click that triggers a download
    before_files,  \* baseline snapshot
    elapsed,       \* watcher loop counter (seconds)
    polls,         \* listings taken by the watcher loop
    slept,         \* seconds slept by the watcher loop
    backup_file,   \* file the watcher selected ("" is None)
    archive,       \* names in the two target directories
    moved          \* moves that completed: <<source name, kind, target name>>

mainVars == <<pc, password_file, password, unity_url, browser, driver, calls, ret, exit_status, close_count, printed>>
chainVars == <<attempts, matched, hit, btn, clicked, scan>>
stepVars == <<chainVars, capture, log>>
watchVars == <<before_files, elapsed, polls, slept, backup_file>>
dirVars == <<downloads, arrivals, since_click, archive, moved>>
fsVars == <<watchVars, dirVars>>
vars     == <<mainVars, stepVars, fsVars>>

(***************************************************************************)
(* Bounds of the model.                                                    *)
(***************************************************************************)
MaxArrivals == 2      \* files the environment drops into ~/Downloads per run
MaxCandidates == 2    \* elements returned by find_elements in a fallback scan
MaxText == 3          \* characters in a password file text

(***************************************************************************)
(* Strings: Python str operations used by the program.                     *)
(***************************************************************************)
CharAt(s, i) == SubSeq(s, i, i)

StartsWithAt(s, i, p) ==
    /\ i + Len(p) - 1 <= Len(s)
    /\ SubSeq(s, i, i + Len(p) - 1) = p

\* str.startswith
StartsWith(s, p) == StartsWithAt(s, 1, p)

\* str.endswith
EndsWith(s, p) ==
    /\ Len(p) <= Len(s)
    /\ SubSeq(s, Len(s) - Len(p) + 1, Len(s)) = p

\* the `in` operator on str
Contains(s, p) == \E i \in 1..(Len(s) + 1) : StartsWithAt(s, i, p)

UpperChars == "ABCDEFGHIJKLMNOPQRSTUVWXYZ"
LowerChars == "abcdefghijklmnopqrstuvwxyz"

LowerChar(c) ==
    IF \E k \in 1..26 : CharAt(UpperChars, k) = c
    THEN CharAt(LowerChars, CHOOSE k \in 1..26 : CharAt(UpperChars, k) = c)
    ELSE c

RECURSIVE Lower(_)
\* str.lower
Lower(s) == IF s = "" THEN "" ELSE LowerChar(CharAt(s, 1)) \o Lower(SubSeq(s, 2, Len(s)))

RECURSIVE Replace(_, _, _)
\* str.replace for a one-character pattern
Replace(s, c, r) ==
    IF s = "" THEN ""
    ELSE (IF CharAt(s, 1) = c THEN r ELSE CharAt(s, 1)) \o Replace(SubSeq(s, 2, Len(s)), c, r)

IsDigitOrDot(c) == \E k \in 1..11 : CharAt("0123456789.", k) = c


(***************************************************************************)
(* Pure functions of the program.                                          *)
(***************************************************************************)
\* __init__: a URL that does not start with 'http' is prefixed with https://
NormaliseUrl(u) == IF ~StartsWith(u, "http") THEN "https://" \o u ELSE u

\* position right after 'http://' or 'https://' when the scheme starts at i, else 0
SchemeEnd(s, i) ==
    IF StartsWithAt(s, i, "http://") THEN i + 7
    ELSE IF StartsWithAt(s, i, "https://") THEN i + 8
    ELSE 0

\* the pattern https?://([\d.]+) matches with the scheme starting at i
MatchAt(s, i) ==
    /\ SchemeEnd(s, i) # 0
    /\ SchemeEnd(s, i) <= Len(s)
    /\ IsDigitOrDot(CharAt(s, SchemeEnd(s, i)))

\* last position of the maximal run of digits and dots that starts at j
RunEnd(s, j) ==
    CHOOSE k \in j..Len(s) :
        /\ \A m \in j..k : IsDigitOrDot(CharAt(s, m))
        /\ (k = Len(s) \/ ~IsDigitOrDot(CharAt(s, k + 1)))

\* re.search(r'https?://([\d.]+)', url).group(1); "" stands for no match
IpMatch(s) ==
    IF \E i \in 1..Len(s) : MatchAt(s, i)
    THEN LET i == CHOOSE i \in 1..Len(s) :
                      MatchAt(s, i) /\ \A j \in 1..(i - 1) : ~MatchAt(s, j)
         IN  SubSeq(s, SchemeEnd(s, i), RunEnd(s, SchemeEnd(s, i)))
    ELSE ""

\* unity_ip without the replacement of the dots
UnityIpWithDots(url) == IF IpMatch(url) # "" THEN IpMatch(url) ELSE "unknown_ip"

\* unity_ip
UnityIp(url) == IF IpMatch(url) # "" THEN Replace(IpMatch(url), ".", "_") ELSE "unknown_ip"

\* position of the last '.' of s, 0 when there is none (str.rfind + 1)
LastDot(s) ==
    IF Contains(s, ".")
    THEN CHOOSE d \in 1..Len(s) :
             CharAt(s, d) = "." /\ \A k \in (d + 1)..Len(s) : CharAt(s, k) # "."
    ELSE 0

\* os.path.splitext(name)[1] for a name without directory separators
SplitExt(s) ==
    IF LastDot(s) # 0 /\ \E k \in 1..(LastDot(s) - 1) : CharAt(s, k) # "."
    THEN SubSeq(s, LastDot(s), Len(s))
    ELSE ""

DigitStr(d) == CharAt("0123456789", d + 1)
Pad2(n) == DigitStr((n \div 10) % 10) \o DigitStr(n % 10)
Pad4(n) == Pad2(n \div 100) \o Pad2(n % 100)

\* datetime.strftime('%Y-%m-%d_%H%M%S')
DateStr(t) ==
    Pad4(t.Y) \o "-" \o Pad2(t.M) \o "-" \o Pad2(t.D) \o "_" \o Pad2(t.h) \o Pad2(t.m) \o Pad2(t.s)

ConfigPrefix == "unity_backup"
KeystorePrefix == "Unity-Encryption-Backup"

\* new_name of backup_workflow
ConfigNewName(t, url, f) ==
    ConfigPrefix \o "_" \o DateStr(t) \o "-IP-" \o UnityIp(url) \o SplitExt(f)

\* new_name of encryption_keystore_backup
KeystoreNewName(t, url, f) ==
    KeystorePrefix \o "_" \o DateStr(t) \o "-IP-" \o UnityIp(url) \o SplitExt(f)

\* the watcher predicate of backup_workflow
ConfigQualifies(f) ==
    \/ EndsWith(Lower(f), ".cfg")
    \/ Contains(Lower(f), "backup")
    \/ EndsWith(Lower(f), ".html")

\* a keystore watcher that takes any new file
KeystoreQualifiesAny(f) == TRUE

\* the watcher predicate of encryption_keystore_backup
KeystoreQualifies(f) == EndsWith(Lower(f), ".lbb")

\* the listing taken as the new files, the baseline ignored
NewFilesNoBaseline(after, before) == after

\* new_files = after_files - before_files
NewFiles(after, before) == after \ before

timeout == 120
poll_interval == 2

\* open(path, 'r'): text mode turns "\r\n" and a lone "\r" into "\n"
RECURSIVE UniversalNewlines(_)
UniversalNewlines(s) ==
    IF s = "" THEN ""
    ELSE IF StartsWith(s, "\r\n") THEN "\n" \o UniversalNewlines(SubSeq(s, 3, Len(s)))
    ELSE IF CharAt(s, 1) = "\r" THEN "\n" \o UniversalNewlines(SubSeq(s, 2, Len(s)))
    ELSE CharAt(s, 1) \o UniversalNewlines(SubSeq(s, 2, Len(s)))

\* the characters str.strip() removes from a text of 7-bit characters: space,
\* \t, \n, \r, \f (0x0c), and the control characters 0x0b, 0x1c, 0x1d, 0x1e and
\* 0x1f, which stand as themselves between the quotes
Whitespace == {" ", "\t", "\n", "\r", "\f", "", "", "", "", ""}

RECURSIVE LStrip(_)
LStrip(s) ==
    IF s # "" /\ CharAt(s, 1) \in Whitespace THEN LStrip(SubSeq(s, 2, Len(s))) ELSE s

RECURSIVE RStrip(_)
RStrip(s) ==
    IF s # "" /\ CharAt(s, Len(s)) \in Whitespace THEN RStrip(SubSeq(s, 1, Len(s) - 1)) ELSE s

\* str.strip()
Strip(s) == RStrip(LStrip(s))

\* password = f.read().strip()
PasswordFromFile(text) == Strip(UniversalNewlines(text))


(***************************************************************************)
(* Inputs.                                                                 *)
(***************************************************************************)
\* values of the unity_url argument
Urls == {"10.0.0.5", "https://unity01.lab:443/cas/login"}

\* values given to --browser
BrowserArgs == {"chrome", "edge", "firefox"}

\* how the password is given
PasswordArgs == {"inline", "file", "unreadable_file", "empty_file_name"}

\* ~/Downloads when the program starts
InitialDownloads == {{"a.txt"}, {"a.txt", "old.cfg", "old.lbb"}}

\* files that may appear in ~/Downloads while the program runs
ArrivingFiles == {"b.cfg", "Unity_BACKUP.zip", "notes.txt", "keys.LBB"}

\* the positional password when no file is given
InlinePassword == "pq"

\* texts of the password file in a run of main(): the password and a newline
PasswordFiles == {"pq\n"}

\* characters of a password file text
Alphabet == {"p", "q", " ", "\n", "\r"}

\* all texts over Alphabet of length at most n
RECURSIVE Texts(_)
Texts(n) ==
    IF n = 0 THEN {""}
    ELSE Texts(n - 1) \cup {t \o c : t \in Texts(n - 1), c \in Alphabet}

\* values of datetime.now()
Clocks == {[Y |-> 2024, M |-> 1, D |-> 5, h |-> 9, m |-> 3, s |-> 7],
           [Y |-> 2025, M |-> 12, D |-> 31, h |-> 23, m |-> 59, s |-> 59]}

(***************************************************************************)
(* Locator chains: number of locators in each list.                        *)
(***************************************************************************)
username_selectors == 7
login_button_selectors == 5
execute_xpaths == 3
create_new_selectors == 5
management_selectors == 6
encryption_selectors == 7
backup_keystore_selectors == 8

\* the loop variable of the chain in progress
NextLocator == Len(attempts) + 1

\* the wait of the attempt returned an element
Resolved(out) == out \in {"found", "clickfail", "clicked"}

\* a selector loop without its break
BreaksNever(out) == FALSE

\* the attempt reaches the loop's break
Breaks(out) == out \in {"found", "clicked"}

\* a loop that stops one locator short of the end of its list
LoopEndsBeforeLast(out, n) == Breaks(out) \/ NextLocator >= n - 1

\* the `for` loop is over: the attempt reached break, or the list of n
\* locators is exhausted
LoopEnds(out, n) == Breaks(out) \/ NextLocator >= n

\* one iteration of a `for selector in selectors` loop with outcome out;
\* n is the length of the list and endpc the statement after the loop
ChainStep(out, n, endpc) ==
    /\ attempts' = Append(attempts, NextLocator)
    /\ matched' = IF matched = 0 /\ Resolved(out) THEN NextLocator ELSE matched
    /\ hit' = IF Breaks(out) THEN NextLocator ELSE hit
    /\ btn' = (btn \/ Resolved(out))
    /\ clicked' = (clicked \/ out = "clicked")
    /\ pc' = IF LoopEnds(out, n) THEN endpc ELSE pc

\* the chain variables before a chain starts
ChainReset ==
    /\ attempts' = <<>>
    /\ matched' = 0
    /\ hit' = 0
    /\ btn' = FALSE
    /\ clicked' = FALSE
    /\ scan' = <<>>

(***************************************************************************)
(* Diagnostic capture: debug_dir.mkdir, the HTML write and the screenshot. *)
(***************************************************************************)
NoCapture == [site |-> "none", mkdir |-> "skipped", html |-> "skipped", shot |-> "skipped"]

\* what one capture can do: mkdir is outside the inner try blocks, the HTML
\* write and the screenshot are each inside one
CaptureOutcomes(site) ==
    {[site |-> site, mkdir |-> "failed", html |-> "skipped", shot |-> "skipped"]}
    \cup {[site |-> site, mkdir |-> "ok", html |-> h, shot |-> s] : h, s \in {"ok", "failed"}}

\* the [DEBUG] Could not save ... messages of a capture
CaptureLog(c) ==
    (IF c.html = "failed" THEN {"could not save html"} ELSE {})
    \cup (IF c.shot = "failed" THEN {"could not save screenshot"} ELSE {})

CaptureFailed(c) == "failed" \in {c.mkdir, c.html, c.shot}

\* the mkdir of a capture outside every try block
CaptureResultUnguarded(c) == IF c.mkdir = "failed" THEN "raised" ELSE "False"

\* what a method returns after the capture c of a failed step: the HTML write
\* and the screenshot have their own try blocks, and the mkdir is inside an
\* enclosing try whose except clause returns False
CaptureResult(c) == "False"

(***************************************************************************)
(* main() up to start_driver.                                              *)
(***************************************************************************)
NoReturn == [login |-> "none", backup_workflow |-> "none", encryption_keystore_backup |-> "none"]

\* everything but pc, browser and the password file before main() runs
InitRest ==
    /\ password = ""
    /\ unity_url = ""
    /\ driver = "None"
    /\ calls = <<>>
    /\ ret = NoReturn
    /\ exit_status = 0
    /\ close_count = 0
    /\ printed = <<>>
    /\ attempts = <<>>
    /\ matched = 0
    /\ hit = 0
    /\ btn = FALSE
    /\ clicked = FALSE
    /\ scan = <<>>
    /\ capture = NoCapture
    /\ log = {}
    /\ downloads \in InitialDownloads
    /\ arrivals = {}
    /\ since_click = {}
    /\ before_files = {}
    /\ elapsed = 0
    /\ polls = 0
    /\ slept = 0
    /\ backup_file = ""
    /\ archive = [config |-> {}, keystore |-> {}]
    /\ moved = <<>>

Init ==
    /\ pc = "parse_arguments"
    /\ browser = ""
    /\ password_file \in PasswordFiles
    /\ InitRest

\* the locals of a method that returned are gone: the chain, capture, log and
\* watcher variables describe the method in progress
LocalsReset ==
    /\ ChainReset
    /\ capture' = NoCapture
    /\ log' = {}
    /\ since_click' = {}
    /\ before_files' = {}
    /\ elapsed' = 0
    /\ polls' = 0
    /\ slept' = 0
    /\ backup_file' = ""

\* main() without its finally clause
LeaveTryWithoutFinally == "done"

\* where control goes when it leaves the try block of main(): the finally clause
LeaveTry == "close"

\* a method returns v to main()
Return(method, v) ==
    /\ ret' = [ret EXCEPT ![method] = v]
    /\ pc' = "main_after_" \o method

\* parse_arguments: --browser has choices chrome and edge
ParseArguments ==
    /\ pc = "parse_arguments"
    /\ \E b \in BrowserArgs :
          IF b \in {"chrome", "edge"}
          THEN browser' = b /\ pc' = "read_password" /\ exit_status' = exit_status
          ELSE browser' = browser /\ pc' = "done" /\ exit_status' = 2
    /\ UNCHANGED <<password_file, password, unity_url, driver, calls, ret, close_count, printed, stepVars, fsVars>>

\* main, line 785: no --password-file, the positional password is used
UsePasswordArgument ==
    /\ pc = "read_password"
    /\ password' = InlinePassword
    /\ pc' = "construct"
    /\ UNCHANGED <<password_file, unity_url, browser, driver, calls, ret, exit_status,
                   close_count, printed, stepVars, fsVars>>

\* main, lines 785-786: --password-file with an empty name; `if
\* args.password_file` is false, the file is not read and the password stays
\* the absent positional argument (None, "" in the model as in Init)
SkipPasswordFile ==
    /\ pc = "read_password"
    /\ password' = ""
    /\ pc' = "construct"
    /\ UNCHANGED <<password_file, unity_url, browser, driver, calls, ret, exit_status,
                   close_count, printed, stepVars, fsVars>>

\* main, lines 786-792: --password-file; open or read may raise, and the
\* except clause prints the error before sys.exit(1)
ReadPasswordFile(readable) ==
    /\ pc = "read_password"
    /\ IF readable
       THEN password' = PasswordFromFile(password_file) /\ pc' = "construct"
               /\ exit_status' = exit_status /\ printed' = printed
       ELSE password' = password /\ pc' = "done" /\ exit_status' = 1
               /\ printed' = Append(printed, "Error reading password file")
    /\ UNCHANGED <<password_file, unity_url, browser, driver, calls, ret, close_count,
                   stepVars, fsVars>>

\* main: the password comes from the command line or from --password-file
ReadPassword ==
    \E p \in PasswordArgs :
       CASE p = "inline" -> UsePasswordArgument
         [] p = "file" -> ReadPasswordFile(TRUE)
         [] p = "unreadable_file" -> ReadPasswordFile(FALSE)
         [] p = "empty_file_name" -> SkipPasswordFile

\* UnityBackup.__init__ for a unity_url argument of the set S
ConstructFrom(S) ==
    /\ pc = "construct"
    /\ \E u \in S : unity_url' = NormaliseUrl(u)
    /\ pc' = "start_driver"
    /\ UNCHANGED <<password_file, password, browser, driver, calls, ret, exit_status,
                   close_count, printed, stepVars, fsVars>>

\* UnityBackup.__init__
Construct == ConstructFrom(Urls)

\* outcomes of start_driver for a browser
StartOutcomes(b) ==
    IF b = "chrome" THEN {"started", "webdriver_error"}
    ELSE IF b = "edge" THEN {"started", "edge_missing", "webdriver_error"}
    ELSE {"unsupported"}

\* a failed start that returns to main() like a successful one
StartStatusSwallowed(out) == 0

\* the exit status start_driver leaves the process with: every failure ends
\* in sys.exit(1)
StartStatus(out) == IF out = "started" THEN 0 ELSE 1

\* UnityBackup.start_driver
StartDriver ==
    /\ pc = "start_driver"
    /\ calls' = Append(calls, "start_driver")
    /\ \E out \in StartOutcomes(browser) :
          IF out = "started"
          THEN driver' = "live" /\ pc' = "login" /\ exit_status' = StartStatus(out)
          ELSE driver' = driver /\ pc' = LeaveTry /\ exit_status' = StartStatus(out)
    /\ UNCHANGED <<password_file, password, unity_url, browser, ret, close_count, printed, stepVars, fsVars>>

(***************************************************************************)
(* UnityBackup.login                                                       *)
(***************************************************************************)
\* login leaves through one of its except clauses, or a return False
LoginFails(msg) ==
    /\ Return("login", "False")
    /\ log' = log \cup {msg}

\* how the navigation of lines 130-140 ends: driver.get works or raises (the
\* inner except logs it and runs the script), and then the script,
\* current_url and title work or one of them raises into the outer except
NavigateOutcomes == {"ok", "get_failed_script_ok", "failed", "get_failed_then_failed"}

\* what the inner except of lines 134-137 logs
NavigateLog(out) ==
    IF out \in {"get_failed_script_ok", "get_failed_then_failed"}
    THEN {"Initial navigation error"} ELSE {}

\* lines 130-140: navigate to the login page
LoginNavigate ==
    /\ pc = "login"
    /\ calls' = Append(calls, "login")
    /\ \E out \in NavigateOutcomes :
          IF out \in {"failed", "get_failed_then_failed"}
          THEN /\ ret' = [ret EXCEPT !.login = "False"]
               /\ pc' = "main_after_login"
               /\ log' = log \cup NavigateLog(out) \cup {"Login failed"}
          ELSE /\ pc' = "login_consent"
               /\ ret' = ret
               /\ log' = log \cup NavigateLog(out)
    /\ UNCHANGED <<password_file, password, unity_url, browser, driver, exit_status, close_count, printed,
                   chainVars, capture, fsVars>>

\* what the consent check logs: the phrase is absent (nothing), the body could
\* not be read (debug message of line 156), Accept clicked, Accept not clickable
ConsentLog(page) ==
    CASE page = "absent" -> {}
      [] page = "body_unreadable" -> {"No security acceptance message detected"}
      [] page = "accepted" -> {"Detected security acceptance page", "Clicked Accept button"}
      [] page = "accept_failed" -> {"Detected security acceptance page",
                                    "Could not click Accept button"}

\* a consent check that goes on to the fields whatever happened
AfterConsentAlways(page) == "login_username"

\* where login goes after the consent check: `return False` when the Accept
\* button could not be clicked, else the username selectors
AfterConsent(page) == IF page = "accept_failed" THEN "main_after_login" ELSE "login_username"

\* lines 142-156: the security acceptance page
LoginConsent ==
    /\ pc = "login_consent"
    /\ \E page \in {"body_unreadable", "absent", "accepted", "accept_failed"} :
          /\ pc' = AfterConsent(page)
          /\ ret' = IF AfterConsent(page) = "main_after_login"
                    THEN [ret EXCEPT !.login = "False"]
                    ELSE ret
          /\ log' = log \cup ConsentLog(page)
    /\ UNCHANGED <<password_file, password, unity_url, browser, driver, calls, exit_status, close_count, printed,
                   chainVars, capture, fsVars>>

\* lines 171-179: one iteration of the username selector loop
LoginTryUsername ==
    /\ pc = "login_username"
    /\ \E out \in {"found", "timeout", "error"} :
          IF out = "error"
          THEN /\ LoginFails("Login failed")
               /\ attempts' = Append(attempts, NextLocator)
               /\ UNCHANGED <<matched, hit, btn, clicked>>
          ELSE /\ ChainStep(out, username_selectors, "login_username_end")
               /\ UNCHANGED <<ret, log>>
    /\ UNCHANGED <<password_file, password, unity_url, browser, driver, calls, exit_status, close_count, printed,
                   scan, capture, fsVars>>

\* lines 181-211: no username field: capture and return False; else type the name
LoginUsernameEnd ==
    /\ pc = "login_username_end"
    /\ IF ~btn
       THEN \E c \in CaptureOutcomes("login_page") :
               /\ capture' = c
               /\ Return("login", CaptureResult(c))
               /\ log' = log \cup {"Username field not found"} \cup CaptureLog(c)
                             \cup (IF c.mkdir = "failed" THEN {"Login failed"} ELSE {})
               /\ UNCHANGED chainVars
       ELSE \E typed \in BOOLEAN :
               /\ capture' = capture
               /\ IF typed
                  THEN pc' = "login_password" /\ UNCHANGED <<ret, log>>
                  ELSE LoginFails("Login failed")
               /\ ChainReset
    /\ UNCHANGED <<password_file, password, unity_url, browser, driver, calls, exit_status, close_count, printed, fsVars>>

\* lines 214-221: the password field
LoginPassword ==
    /\ pc = "login_password"
    /\ \E out \in {"typed", "timeout", "error"} :
          IF out = "typed"
          THEN pc' = "login_button" /\ UNCHANGED <<ret, log>>
          ELSE LoginFails(IF out = "timeout" THEN "Password field not found" ELSE "Login failed")
    /\ UNCHANGED <<password_file, password, unity_url, browser, driver, calls, exit_status, close_count, printed,
                   chainVars, capture, fsVars>>

\* lines 233-240: one iteration of the login button selector loop
LoginTryButton ==
    /\ pc = "login_button"
    /\ \E out \in {"found", "timeout", "error"} :
          IF out = "error"
          THEN /\ LoginFails("Error clicking login button")
               /\ attempts' = Append(attempts, NextLocator)
               /\ UNCHANGED <<matched, hit, btn, clicked>>
          ELSE /\ ChainStep(out, login_button_selectors, "login_click")
               /\ UNCHANGED <<ret, log>>
    /\ UNCHANGED <<password_file, password, unity_url, browser, driver, calls, exit_status, close_count, printed,
                   scan, capture, fsVars>>

\* lines 241-244 and 264-269: click the login button
LoginClick ==
    /\ pc = "login_click"
    /\ IF ~btn
       THEN LoginFails("Login button not found") /\ clicked' = clicked
       ELSE \E ok \in BOOLEAN :
               IF ok
               THEN pc' = "login_capture" /\ clicked' = TRUE /\ UNCHANGED <<ret, log>>
               ELSE LoginFails("Error clicking login button") /\ clicked' = clicked
    /\ UNCHANGED <<password_file, password, unity_url, browser, driver, calls, exit_status, close_count, printed,
                   attempts, matched, hit, btn, scan, capture, fsVars>>

\* a login() that reports failure after every click
PostLoginResultNever(c) == "False"

\* what login returns after the post-login capture c (lines 245-269): the mkdir
\* of line 247 is inside the try of line 224, whose except returns False
PostLoginResult(c) == IF c.mkdir = "failed" THEN "False" ELSE "True"

\* lines 245-263: the post-login capture and the return
LoginCapture ==
    /\ pc = "login_capture"
    /\ \E c \in CaptureOutcomes("post_login_page") :
          /\ capture' = c
          /\ Return("login", PostLoginResult(c))
          /\ log' = log \cup CaptureLog(c)
                        \cup (IF c.mkdir = "failed" THEN {"Error clicking login button"} ELSE {})
    /\ UNCHANGED <<password_file, password, unity_url, browser, driver, calls, exit_status, close_count, printed,
                   chainVars, fsVars>>

\* main() going on to backup_workflow whatever login() returned
AfterLoginUnconditional(r) == "backup_workflow"

\* `if backup_creator.login():` and its else branch
AfterLogin(r) == IF r = "True" THEN "backup_workflow" ELSE LeaveTry

\* main, lines 797 and 816-817
MainAfterLogin ==
    /\ pc = "main_after_login"
    /\ pc' = AfterLogin(ret.login)
    /\ LocalsReset
    /\ UNCHANGED <<password_file, password, unity_url, browser, driver, calls, ret, exit_status, close_count, printed,
                   downloads, arrivals, archive, moved>>


(***************************************************************************)
(* The environment: a file appears in ~/Downloads.  Files are observed     *)
(* from the last iteration of the chain that triggers a download until     *)
(* the watcher has finished.                                               *)
(***************************************************************************)
WatchWindow == {"bw_create_end", "bw_snapshot", "bw_poll",
                "ks_keystore_end", "ks_keystore_scan", "ks_snapshot", "ks_poll"}

FileAppears ==
    /\ pc \in WatchWindow
    /\ Cardinality(arrivals) < MaxArrivals
    /\ \E f \in ArrivingFiles \ (downloads \cup arrivals) :
          /\ downloads' = downloads \cup {f}
          /\ arrivals' = arrivals \cup {f}
          /\ since_click' = IF clicked THEN since_click \cup {f} ELSE since_click
    /\ UNCHANGED <<mainVars, stepVars, watchVars, archive, moved>>

(***************************************************************************)
(* The download watcher and the archiver, shared shape of lines 392-437    *)
(* and 708-755.                                                            *)
(***************************************************************************)
\* the file names of the inputs, and those of them each watcher predicate
\* accepts: the predicates evaluated once for these names
InputFiles == ArrivingFiles \cup UNION InitialDownloads
ConfigInputFiles == {f \in InputFiles : ConfigQualifies(f)}
KeystoreInputFiles == {f \in InputFiles : KeystoreQualifies(f)}

\* new files that satisfy the predicate of backup_workflow (looked up for an
\* input file name, computed for any other)
ConfigCandidates(after, before) ==
    {f \in NewFiles(after, before) :
        IF f \in InputFiles THEN f \in ConfigInputFiles ELSE ConfigQualifies(f)}

\* new files that satisfy the predicate of encryption_keystore_backup
KeystoreCandidates(after, before) ==
    {f \in NewFiles(after, before) :
        IF f \in InputFiles THEN f \in KeystoreInputFiles ELSE KeystoreQualifies(f)}

\* what os.listdir raising does to the method: backup_workflow has an outer
\* try/except that returns False, encryption_keystore_backup has none
ListdirRaises(method) == IF method = "backup_workflow" THEN "False" ELSE "raised"

\* what is logged then: the except clause of backup_workflow logs the error
\* (line 439); "listdir raised" marks the exception itself
ListdirLog(method) ==
    IF method = "backup_workflow" THEN {"listdir raised", "Backup workflow failed"}
    ELSE {"listdir raised"}

\* the loop condition off by one
WatchGoesOnInclusive == elapsed <= timeout

\* the condition of `while elapsed < timeout`
WatchGoesOn == elapsed < timeout

\* before_files = set(os.listdir(download_dir)) and the loop variables
Snapshot(method, pollpc) ==
    /\ \E listed \in BOOLEAN :
          IF listed
          THEN /\ before_files' = downloads
               /\ elapsed' = 0
               /\ polls' = 0
               /\ slept' = 0
               /\ backup_file' = ""
               /\ pc' = pollpc
               /\ UNCHANGED <<ret, log>>
          ELSE /\ Return(method, ListdirRaises(method))
               /\ log' = log \cup ListdirLog(method)
               /\ UNCHANGED watchVars
    /\ attempts' = <<>>
    /\ matched' = 0
    /\ hit' = 0
    /\ scan' = <<>>
    /\ UNCHANGED <<password_file, password, unity_url, browser, driver, calls, exit_status, close_count, printed,
                   btn, clicked, capture, dirVars>>

\* one iteration of `while elapsed < timeout`; cands are the qualifying new files
Poll(method, cands, movepc) ==
    /\ WatchGoesOn
    /\ \E listed \in BOOLEAN :
          IF ~listed
          THEN /\ Return(method, ListdirRaises(method))
               /\ log' = log \cup ListdirLog(method)
               /\ UNCHANGED watchVars
          ELSE /\ polls' = polls + 1
               /\ UNCHANGED <<ret, log, before_files>>
               /\ IF cands # {}
                  THEN \E f \in cands :
                          /\ backup_file' = f
                          /\ pc' = movepc
                          /\ UNCHANGED <<elapsed, slept>>
                  ELSE /\ slept' = slept + poll_interval
                       /\ elapsed' = elapsed + poll_interval
                       /\ UNCHANGED <<pc, backup_file>>
    /\ UNCHANGED <<password_file, password, unity_url, browser, driver, calls, exit_status, close_count, printed,
                   chainVars, capture, dirVars>>

\* the statements after the while loop
TimedOut(method) ==
    /\ ~WatchGoesOn
    /\ Return(method, "False")
    /\ log' = log \cup {"not downloaded within timeout"}
    /\ UNCHANGED <<password_file, password, unity_url, browser, driver, calls, exit_status, close_count, printed,
                   chainVars, capture, fsVars>>

\* os.makedirs + shutil.move from C:\...\Downloads to E:\...: "moved", or an
\* exception with nothing changed, or with the copy made and the source left
MoveOutcomes == {"moved", "failed", "copied_not_removed"}

\* a copy in place of the move: the source stays
DownloadsAfterCopy(out, f) == downloads

\* ~/Downloads after the move of f with outcome out
DownloadsAfterMove(out, f) == IF out = "moved" THEN downloads \ {f} ELSE downloads

\* target_dir of backup_workflow and of encryption_keystore_backup: raw
\* strings, so each separator is two backslashes
ConfigTargetDir == "E:\\\\Unity\\\\Configuration backups"
KeystoreTargetDir == "E:\\\\Unity\\\\Encryption Key Backups"

\* os.path.join(target_dir, new_name) on Windows
TargetPath(dir, name) == dir \o "\\" \o name

\* a move that leaves a second copy beside the target
ArchiveAfterMoveWithCopy(out, dir, target) ==
    IF out = "failed" THEN dir ELSE dir \cup {target, target \o ".bak"}

\* the target directory dir after the move with outcome out to name target
ArchiveAfterMove(out, dir, target) == IF out = "failed" THEN dir ELSE dir \cup {target}

\* a move whose exception is logged and not turned into False
MoveResultIgnoresFailure(out) == "True"

\* what the method returns after the move
MoveResult(out) == IF out = "moved" THEN "True" ELSE "False"

\* rename and move the selected file; target is the computed new_name
Archive(method, kind, out, target) ==
    /\ downloads' = DownloadsAfterMove(out, backup_file)
    /\ archive' = [archive EXCEPT ![kind] = ArchiveAfterMove(out, archive[kind], target)]
    /\ moved' = IF out = "moved" THEN Append(moved, <<backup_file, kind, target>>) ELSE moved
    /\ Return(method, MoveResult(out))
    /\ log' = log \cup {IF out = "moved" THEN "file moved" ELSE "Failed to move/rename"}
    /\ UNCHANGED <<password_file, password, unity_url, browser, driver, calls, exit_status, close_count, printed,
                   chainVars, capture, watchVars, arrivals, since_click>>

(***************************************************************************)
(* UnityBackup.backup_workflow                                             *)
(***************************************************************************)
BackupFails(msg) ==
    /\ Return("backup_workflow", "False")
    /\ log' = log \cup {msg}

\* lines 279-287: open the Service Task page
BwNavigate ==
    /\ pc = "backup_workflow"
    /\ calls' = Append(calls, "backup_workflow")
    /\ \E ok \in BOOLEAN :
          IF ok
          THEN pc' = "bw_save" /\ UNCHANGED <<ret, log>>
          ELSE BackupFails("Failed to navigate to Service Task page")
    /\ UNCHANGED <<password_file, password, unity_url, browser, driver, exit_status, close_count, printed,
                   chainVars, capture, fsVars>>

\* lines 289-297: Save Configuration
BwSaveConfig ==
    /\ pc = "bw_save"
    /\ \E ok \in BOOLEAN :
          IF ok
          THEN pc' = "bw_execute" /\ UNCHANGED <<ret, log>>
          ELSE BackupFails("Failed to click Save Configuration")
    /\ UNCHANGED <<password_file, password, unity_url, browser, driver, calls, exit_status, close_count, printed,
                   chainVars, capture, fsVars>>

\* lines 309-323: one iteration of the Execute loop
BwTryExecute ==
    /\ pc = "bw_execute"
    /\ \E out \in {"miss", "clickfail", "clicked"} :
          ChainStep(out, execute_xpaths, "bw_execute_end")
    /\ UNCHANGED <<password_file, password, unity_url, browser, driver, calls, ret, exit_status, close_count, printed,
                   scan, capture, log, fsVars>>

\* `if not <element variable>: raise` followed by the except clause with the
\* capture (lines 324-345 and 370-391), else the next statement
ClickChainEnd(nextpc, site, msg) ==
    IF ~btn
    THEN \E c \in CaptureOutcomes(site) :
            /\ capture' = c
            /\ Return("backup_workflow", CaptureResult(c))
            /\ log' = log \cup {msg} \cup CaptureLog(c)
                          \cup (IF c.mkdir = "failed" THEN {"Backup workflow failed"} ELSE {})
    ELSE /\ pc' = nextpc
         /\ UNCHANGED <<ret, log, capture>>

BwExecuteEnd ==
    /\ pc = "bw_execute_end"
    /\ ClickChainEnd("bw_create", "execute_button_fail", "Failed to click Execute button")
    /\ IF btn THEN ChainReset ELSE UNCHANGED chainVars
    /\ UNCHANGED <<password_file, password, unity_url, browser, driver, calls, exit_status, close_count, printed, fsVars>>

\* lines 358-369: one iteration of the Create New loop
BwTryCreate ==
    /\ pc = "bw_create"
    /\ \E out \in {"miss", "clickfail", "clicked"} :
          ChainStep(out, create_new_selectors, "bw_create_end")
    /\ UNCHANGED <<password_file, password, unity_url, browser, driver, calls, ret, exit_status, close_count, printed,
                   scan, capture, log, fsVars>>

BwCreateEnd ==
    /\ pc = "bw_create_end"
    /\ ClickChainEnd("bw_snapshot", "create_new_button_fail", "Failed to click Create New button")
    /\ UNCHANGED <<password_file, password, unity_url, browser, driver, calls, exit_status, close_count, printed,
                   chainVars, fsVars>>

\* lines 393-400
BwSnapshot ==
    /\ pc = "bw_snapshot"
    /\ Snapshot("backup_workflow", "bw_poll")

\* lines 401-410 and 434-435
BwPoll ==
    /\ pc = "bw_poll"
    /\ Poll("backup_workflow", ConfigCandidates(downloads, before_files), "bw_move")

\* lines 436-437
BwTimedOut ==
    /\ pc = "bw_poll"
    /\ TimedOut("backup_workflow")

\* lines 411-433
BwMove ==
    /\ pc = "bw_move"
    /\ \E t \in Clocks, out \in MoveOutcomes :
          Archive("backup_workflow", "config", out, ConfigNewName(t, unity_url, backup_file))

\* main, lines 799-808 and 814-815
MainAfterBackup ==
    /\ pc = "main_after_backup_workflow"
    /\ IF ret.backup_workflow = "True"
       THEN /\ printed' = Append(printed, "Backup workflow completed!")
            /\ pc' = "dashboard"
       ELSE /\ printed' = Append(printed, "Backup workflow failed!")
            /\ pc' = LeaveTry
    /\ LocalsReset
    /\ UNCHANGED <<password_file, password, unity_url, browser, driver, calls, ret, exit_status, close_count,
                   downloads, arrivals, archive, moved>>


\* a main() in which a failed dashboard navigation ends the run
AfterDashboardAbort(ok) == IF ok THEN "encryption_keystore_backup" ELSE LeaveTry

\* the statement after the try/except around the dashboard navigation
AfterDashboard(ok) == "encryption_keystore_backup"

\* main, lines 801-808: driver.get(dashboard_url); a failure is logged as a
\* warning and ignored
Dashboard ==
    /\ pc = "dashboard"
    /\ \E ok \in BOOLEAN :
          /\ log' = IF ok THEN log ELSE log \cup {"Failed to navigate to Dashboard"}
          /\ pc' = AfterDashboard(ok)
    /\ UNCHANGED <<password_file, password, unity_url, browser, driver, calls, ret,
                   exit_status, close_count, printed, chainVars, capture, fsVars>>

(***************************************************************************)
(* UnityBackup.encryption_keystore_backup                                  *)
(***************************************************************************)
KeystoreFails(msg) ==
    /\ Return("encryption_keystore_backup", "False")
    /\ log' = log \cup {msg}

\* lines 444-455: the Settings button
KsSettings ==
    /\ pc = "encryption_keystore_backup"
    /\ calls' = Append(calls, "encryption_keystore_backup")
    /\ \E ok \in BOOLEAN :
          IF ok
          THEN pc' = "ks_escape" /\ ret' = ret /\ log' = {}
          ELSE /\ Return("encryption_keystore_backup", "False")
               /\ log' = {"Failed to click Settings button"}
    /\ UNCHANGED <<password_file, password, unity_url, browser, driver, exit_status, close_count, printed,
                   chainVars, capture, fsVars>>

\* lines 457-464: ESCAPE to the body; a failure is logged as a warning and ignored
KsEscape ==
    /\ pc = "ks_escape"
    /\ \E sent \in BOOLEAN : pc' = "ks_management"
    /\ UNCHANGED <<password_file, password, unity_url, browser, driver, calls, ret, exit_status, close_count, printed,
                   chainVars, capture, log, fsVars>>

\* one iteration of a selector loop of the keystore flow
KsTry(n, endpc) ==
    /\ \E out \in {"miss", "clickfail", "clicked"} : ChainStep(out, n, endpc)
    /\ UNCHANGED <<password_file, password, unity_url, browser, driver, calls, ret, exit_status, close_count, printed,
                   scan, capture, log, fsVars>>

\* `if not <element variable>:` after a selector loop: the text-scan fallback
\* runs when the variable is None, else control goes to the next step
KsChainEnd(scanpc, nextpc) ==
    /\ pc' = IF ~btn THEN scanpc ELSE nextpc
    /\ UNCHANGED <<password_file, password, unity_url, browser, driver, calls, ret, exit_status, close_count, printed,
                   capture, log, fsVars>>

\* the candidate's click completed: found = True and break
ScanBreaks(out) == out = "clicked"

\* the fallback: find_elements, then the candidates in order; one step visits
\* one candidate, or finds the list exhausted (lines 500-540, 581-621, 664-704)
KsScan(nextpc, site) ==
    /\ \E out \in {"find_failed", "skip", "clickfail", "clicked", "exhausted"} :
          /\ out = "find_failed" => scan = <<>>
          /\ out \in {"skip", "clickfail", "clicked"} => Len(scan) < MaxCandidates
          /\ IF out = "find_failed"
             THEN /\ KeystoreFails("Final fallback failed")
                  /\ UNCHANGED <<scan, clicked, capture>>
             ELSE IF out = "exhausted"
             THEN \E c \in CaptureOutcomes(site) :
                     /\ capture' = c
                     /\ Return("encryption_keystore_backup", CaptureResult(c))
                     /\ log' = log \cup {"Failed to find/click by any method"} \cup CaptureLog(c)
                                   \cup (IF c.mkdir = "failed" THEN {"Final fallback failed"}
                                         ELSE {})
                     /\ UNCHANGED <<scan, clicked>>
             ELSE /\ scan' = Append(scan, out)
                  /\ clicked' = (clicked \/ out = "clicked")
                  /\ pc' = IF ScanBreaks(out) THEN nextpc ELSE pc
                  /\ UNCHANGED <<ret, log, capture>>
    /\ UNCHANGED <<password_file, password, unity_url, browser, driver, calls, exit_status, close_count, printed,
                   attempts, matched, hit, btn, fsVars>>

KsTryManagement == pc = "ks_management" /\ KsTry(management_selectors, "ks_management_end")

KsManagementEnd ==
    /\ pc = "ks_management_end"
    /\ KsChainEnd("ks_management_scan", "ks_encryption")
    /\ IF btn THEN ChainReset ELSE UNCHANGED chainVars

KsManagementScan ==
    /\ pc = "ks_management_scan"
    /\ KsScan("ks_management_found", "management_not_found")

\* the statement after a fallback that clicked: the next selector loop
KsNextChain(nextpc) ==
    /\ pc' = nextpc
    /\ ChainReset
    /\ UNCHANGED <<password_file, password, unity_url, browser, driver, calls, ret, exit_status, close_count, printed,
                   capture, log, fsVars>>

KsManagementFound == pc = "ks_management_found" /\ KsNextChain("ks_encryption")

KsTryEncryption == pc = "ks_encryption" /\ KsTry(encryption_selectors, "ks_encryption_end")

KsEncryptionEnd ==
    /\ pc = "ks_encryption_end"
    /\ KsChainEnd("ks_encryption_scan", "ks_keystore")
    /\ IF btn THEN ChainReset ELSE UNCHANGED chainVars

KsEncryptionScan ==
    /\ pc = "ks_encryption_scan"
    /\ KsScan("ks_encryption_found", "encryption_not_found")

KsEncryptionFound == pc = "ks_encryption_found" /\ KsNextChain("ks_keystore")

KsTryKeystore == pc = "ks_keystore" /\ KsTry(backup_keystore_selectors, "ks_keystore_end")

KsKeystoreEnd ==
    /\ pc = "ks_keystore_end"
    /\ KsChainEnd("ks_keystore_scan", "ks_snapshot")
    /\ UNCHANGED chainVars

KsKeystoreScan ==
    /\ pc = "ks_keystore_scan"
    /\ KsScan("ks_snapshot", "backup_keystore_not_found")

\* lines 709-716
KsSnapshot ==
    /\ pc = "ks_snapshot"
    /\ Snapshot("encryption_keystore_backup", "ks_poll")

\* lines 717-726 and 752-753
KsPoll ==
    /\ pc = "ks_poll"
    /\ Poll("encryption_keystore_backup", KeystoreCandidates(downloads, before_files), "ks_move")

\* lines 754-755
KsTimedOut ==
    /\ pc = "ks_poll"
    /\ TimedOut("encryption_keystore_backup")

\* lines 727-751
KsMove ==
    /\ pc = "ks_move"
    /\ \E t \in Clocks, out \in MoveOutcomes :
          Archive("encryption_keystore_backup", "keystore", out,
                  KeystoreNewName(t, unity_url, backup_file))

\* an exception of a method that goes through main() uncaught
UnexpectedErrorUncaught(status) == 1

\* `except Exception as e:` of main(): the exception is logged and main()
\* returns normally, so the exit status stays what it was
UnexpectedErrorStatus(status) == status

\* main, lines 810-813 and 818-819
MainAfterKeystore ==
    /\ pc = "main_after_encryption_keystore_backup"
    /\ printed' = IF ret.encryption_keystore_backup = "True"
                  THEN Append(printed, "Encryption keystore backup completed!")
                  ELSE IF ret.encryption_keystore_backup = "False"
                  THEN Append(printed, "Encryption keystore backup failed!")
                  ELSE printed
    /\ exit_status' = IF ret.encryption_keystore_backup = "raised"
                      THEN UnexpectedErrorStatus(exit_status)
                      ELSE exit_status
    /\ pc' = LeaveTry
    /\ LocalsReset
    /\ UNCHANGED <<password_file, password, unity_url, browser, driver, calls, ret, close_count,
                   downloads, arrivals, archive, moved>>

(***************************************************************************)
(* UnityBackup.close, called from the finally clause of main().            *)
(***************************************************************************)
Close ==
    /\ pc = "close"
    /\ calls' = Append(calls, "close")
    /\ close_count' = close_count + 1
    /\ \E quit_ok \in BOOLEAN :
          driver' = IF driver = "live" /\ quit_ok THEN "quit" ELSE driver
    /\ pc' = "done"
    /\ UNCHANGED <<password_file, password, unity_url, browser, ret, exit_status, printed, stepVars, fsVars>>

Next ==
    \/ ParseArguments
    \/ ReadPassword
    \/ Construct
    \/ StartDriver
    \/ LoginNavigate
    \/ LoginConsent
    \/ LoginTryUsername
    \/ LoginUsernameEnd
    \/ LoginPassword
    \/ LoginTryButton
    \/ LoginClick
    \/ LoginCapture
    \/ MainAfterLogin
    \/ BwNavigate
    \/ BwSaveConfig
    \/ BwTryExecute
    \/ BwExecuteEnd
    \/ BwTryCreate
    \/ BwCreateEnd
    \/ BwSnapshot
    \/ BwPoll
    \/ BwTimedOut
    \/ BwMove
    \/ MainAfterBackup
    \/ Dashboard
    \/ KsSettings
    \/ KsEscape
    \/ KsTryManagement
    \/ KsManagementEnd
    \/ KsManagementScan
    \/ KsManagementFound
    \/ KsTryEncryption
    \/ KsEncryptionEnd
    \/ KsEncryptionScan
    \/ KsEncryptionFound
    \/ KsTryKeystore
    \/ KsKeystoreEnd
    \/ KsKeystoreScan
    \/ KsSnapshot
    \/ KsPoll
    \/ KsTimedOut
    \/ KsMove
    \/ MainAfterKeystore
    \/ Close
    \/ FileAppears

Spec == Init /\ [][Next]_vars


(***************************************************************************)
(* Properties.                                                             *)
(***************************************************************************)
Methods == {"login", "backup_workflow", "encryption_keystore_backup"}

Constructed == unity_url # ""

\* C1: in every execution of main() that constructs the UnityBackup object,
\* close() runs exactly once and is the last workflow step, wherever the run
\* stops; no execution terminates after construction without close().
C1_CloseOnceAndLast ==
    /\ close_count = Cardinality({i \in 1..Len(calls) : calls[i] = "close"})
    /\ close_count <= 1
    /\ close_count = 1 => (pc = "done" /\ calls[Len(calls)] = "close")
    /\ (Constructed /\ pc = "done") => close_count = 1
    /\ (Constructed /\ pc # "done") => close_count = 0

\* a run that ended with encryption_keystore_backup raising, close() done
C1_Witness ==
    /\ pc = "done"
    /\ ret.encryption_keystore_backup = "raised"
    /\ close_count = 1

\* the pcs of the selector loops and of the statement after each loop
PresenceChainPcs == {"login_username", "login_username_end", "login_button", "login_click"}
ClickChainPcs == {"bw_execute", "bw_execute_end", "bw_create", "bw_create_end",
                  "ks_management", "ks_management_end", "ks_encryption",
                  "ks_encryption_end", "ks_keystore", "ks_keystore_end"}

ChainLength ==
    CASE pc \in {"login_username", "login_username_end"} -> username_selectors
      [] pc \in {"login_button", "login_click"} -> login_button_selectors
      [] pc \in {"bw_execute", "bw_execute_end"} -> execute_xpaths
      [] pc \in {"bw_create", "bw_create_end"} -> create_new_selectors
      [] pc \in {"ks_management", "ks_management_end"} -> management_selectors
      [] pc \in {"ks_encryption", "ks_encryption_end"} -> encryption_selectors
      [] pc \in {"ks_keystore", "ks_keystore_end"} -> backup_keystore_selectors
      [] OTHER -> 0

\* C2 as stated: once the Nth locator has matched (its wait resolved an
\* element), no locator after the Nth is attempted.
C2_NoAttemptAfterMatch ==
    (pc \in PresenceChainPcs \cup ClickChainPcs /\ matched # 0) => Len(attempts) <= matched

\* C2 amended: locators are attempted in list order, each at most once, and
\* no locator is attempted after the one whose attempt succeeded, where an
\* attempt succeeds when the wait returns the element (username field, login
\* button) or when the element is also clicked without error (the five click
\* chains); a locator that matched but whose click raised is followed by the
\* next locator.
C2_InOrderUntilSuccess ==
    (pc \in PresenceChainPcs \cup ClickChainPcs) =>
        /\ attempts = [i \in 1..Len(attempts) |-> i]
        /\ Len(attempts) <= ChainLength
        /\ hit # 0 => (hit = Len(attempts) /\ matched # 0 /\ matched <= hit)
        /\ (pc \in PresenceChainPcs /\ matched # 0) => hit = matched
        /\ (pc \in ClickChainPcs /\ clicked) => hit = Len(attempts)
        /\ (pc \in ClickChainPcs /\ hit # 0) => clicked

\* the third locator of the Backup Keystore File chain is the only one that
\* matched and its click succeeded: exactly locators 1, 2, 3 were attempted
C2_Witness ==
    /\ pc = "ks_keystore_end"
    /\ matched = 3
    /\ hit = 3
    /\ attempts = <<1, 2, 3>>

\* C3: the baseline snapshot is taken before the click that triggers the
\* download, so no file that appeared after that click is in the baseline.
C3_BaselineBeforeClick == before_files \cap since_click = {}

\* the watcher's selection on fixed listings
C4_Examples ==
    /\ ConfigCandidates({"a.txt", "b.cfg"}, {"a.txt"}) = {"b.cfg"}
    /\ ConfigCandidates({"a.txt", "old.cfg", "notes.txt"}, {"a.txt", "old.cfg"}) = {}
    /\ KeystoreCandidates({"old.lbb", "b.cfg", "keys.LBB"}, {"old.lbb"}) = {"keys.LBB"}

\* C4: the watcher only selects a file of (listing minus baseline) that
\* satisfies the predicate; a baseline file is never selected even if it
\* matches, a new file that does not match is never selected; with baseline
\* {a.txt} and listing {a.txt, b.cfg} the file selected is b.cfg.
C4_SelectsNewQualifying ==
    /\ backup_file # "" => (backup_file \notin before_files /\ backup_file \in arrivals)
    /\ pc \in {"bw_move", "ks_move"} => backup_file \in downloads
    /\ pc \in {"bw_move", "main_after_backup_workflow"} =>
           backup_file \in {"", "b.cfg", "Unity_BACKUP.zip"}
    /\ pc \in {"ks_move", "main_after_encryption_keystore_backup"} =>
           backup_file \in {"", "keys.LBB"}
    /\ (pc = "bw_move" /\ before_files = {"a.txt"} /\ downloads = {"a.txt", "b.cfg"}) =>
           backup_file = "b.cfg"
    /\ C4_Examples

\* baseline {a.txt}, listing {a.txt, b.cfg}: b.cfg selected
C4_Witness ==
    /\ pc = "bw_move"
    /\ before_files = {"a.txt"}
    /\ downloads = {"a.txt", "b.cfg"}
    /\ backup_file = "b.cfg"

\* the watcher of a method ended by its timeout
WatcherTimedOut(method) ==
    /\ pc = "main_after_" \o method
    /\ "not downloaded within timeout" \in log

\* C5: when no qualifying new file is present at any poll the watcher ends
\* with False after 60 polls and exactly 120 seconds of sleep; it never polls
\* or sleeps beyond timeout + poll_interval, and it moves no file.
C5_WatcherTimesOut ==
    /\ polls <= 60
    /\ slept <= 120
    /\ slept = polls * 2 \/ (backup_file # "" /\ slept = (polls - 1) * 2)
    /\ \A m \in {"backup_workflow", "encryption_keystore_backup"} :
           WatcherTimedOut(m) =>
               /\ ret[m] = "False"
               /\ polls = 60
               /\ slept = 120
               /\ backup_file = ""
               /\ \A i \in 1..Len(moved) :
                      moved[i][2] # (IF m = "backup_workflow" THEN "config" ELSE "keystore")
    /\ (pc \in {"bw_poll", "ks_poll"} /\ slept = 120) =>
           (ENABLED (BwTimedOut \/ KsTimedOut) /\ ~ENABLED (BwPoll \/ KsPoll))

\* the keystore watcher timed out
C5_Witness ==
    /\ WatcherTimedOut("encryption_keystore_backup")
    /\ ret.encryption_keystore_backup = "False"
    /\ polls = 60
    /\ slept = 120

KindOf(method) == IF method = "backup_workflow" THEN "config" ELSE "keystore"

\* C6: when backup_workflow or encryption_keystore_backup returns True the
\* selected file is gone from ~/Downloads and is in the archive directory
\* under the computed name; that step moved exactly one file and left every
\* other file of ~/Downloads as it was.
C6_MovesExactlyTheSelectedFile ==
    [][\A m \in {"backup_workflow", "encryption_keystore_backup"} :
          (ret[m] # "True" /\ ret'[m] = "True") =>
              /\ backup_file \in downloads
              /\ downloads' = downloads \ {backup_file}
              /\ Len(moved') = Len(moved) + 1
              /\ moved'[Len(moved')][1] = backup_file
              /\ moved'[Len(moved')][2] = KindOf(m)
              /\ archive'[KindOf(m)] = archive[KindOf(m)] \cup {moved'[Len(moved')][3]}
              /\ Cardinality({i \in 1..Len(moved') : moved'[i][2] = KindOf(m)}) = 1
              /\ \A k \in {"config", "keystore"} \ {KindOf(m)} : archive'[k] = archive[k]]_vars

\* backup_workflow returned True with two new qualifying files present: one
\* was moved, the other is still in ~/Downloads
C6_Witness ==
    /\ pc = "main_after_backup_workflow"
    /\ ret.backup_workflow = "True"
    /\ backup_file = "b.cfg"
    /\ "b.cfg" \notin downloads
    /\ "Unity_BACKUP.zip" \in downloads \ before_files

\* host identifier and extension expected for the inputs of the model
ExpectedIp == IF unity_url = "https://10.0.0.5" THEN "10_0_0_5" ELSE "unknown_ip"
ExpectedExt == [f \in {"b.cfg", "Unity_BACKUP.zip", "keys.LBB"} |->
                   IF f = "b.cfg" THEN ".cfg" ELSE IF f = "keys.LBB" THEN ".LBB" ELSE ".zip"]
ExpectedDates == {"2024-01-05_090307", "2025-12-31_235959"}
ExpectedPrefix == [k \in {"config", "keystore"} |->
                      IF k = "config" THEN "unity_backup" ELSE "Unity-Encryption-Backup"]

\* the names expected for a kind, a host identifier and a source file
ExpectedNames ==
    [k \in {"config", "keystore"}, ip \in {"10_0_0_5", "unknown_ip"}, f \in DOMAIN ExpectedExt |->
        {ExpectedPrefix[k] \o "_" \o d \o "-IP-" \o ip \o ExpectedExt[f] : d \in ExpectedDates}]

\* the name computed for report.cfg from 10.0.0.5
C7_Example ==
    ConfigNewName([Y |-> 2024, M |-> 1, D |-> 5, h |-> 9, m |-> 3, s |-> 7],
                  "https://10.0.0.5", "report.cfg")
        = "unity_backup_2024-01-05_090307-IP-10_0_0_5.cfg"

\* C7: the archive name is prefix _ YYYY-MM-DD_HHMMSS -IP- host identifier
\* with '.' replaced by '_', then the extension of the downloaded file; the
\* prefix is unity_backup or Unity-Encryption-Backup; report.cfg from
\* 10.0.0.5 gives unity_backup_<date>_<time>-IP-10_0_0_5.cfg.
C7_ArchiveName ==
    /\ \A i \in 1..Len(moved) :
           /\ moved[i][1] \in DOMAIN ExpectedExt
           /\ moved[i][3] \in ExpectedNames[moved[i][2], ExpectedIp, moved[i][1]]
    /\ \A k \in {"config", "keystore"} :
           \A n \in archive[k] :
               \E f \in DOMAIN ExpectedExt : n \in ExpectedNames[k, ExpectedIp, f]
    /\ C7_Example

\* a keystore file archived from 10.0.0.5
C7_Witness ==
    /\ "Unity-Encryption-Backup_2025-12-31_235959-IP-10_0_0_5.LBB" \in archive.keystore
    /\ "unity_backup_2024-01-05_090307-IP-10_0_0_5.cfg" \in archive.config

\* C8: login, backup_workflow and encryption_keystore_backup return a
\* boolean for every failure and never let an exception reach main().
C8_NoExceptionReachesMain == \A m \in Methods : ret[m] # "raised"

\* C9: a failure of the diagnostic capture never changes the result of the
\* step: once the login button was clicked, login() returns True whether
\* or not the post-login capture succeeds.
C9_ClickedLoginReturnsTrue ==
    (pc = "main_after_login" /\ clicked) => ret.login = "True"

MethodOfSite(site) ==
    CASE site \in {"login_page", "post_login_page"} -> "login"
      [] site \in {"execute_button_fail", "create_new_button_fail"} -> "backup_workflow"
      [] OTHER -> "encryption_keystore_backup"

\* C10: no failure of a diagnostic capture leaves login, backup_workflow or
\* encryption_keystore_backup as an exception; the failure is logged and the
\* method returns a boolean.
C10_CaptureFailureIsSwallowed ==
    /\ capture # NoCapture =>
           /\ pc = "main_after_" \o MethodOfSite(capture.site)
           /\ ret[MethodOfSite(capture.site)] \in {"True", "False"}
    /\ (capture # NoCapture /\ capture.mkdir = "failed") =>
           log \cap {"Login failed", "Error clicking login button",
                     "Backup workflow failed", "Final fallback failed"} # {}
    /\ (capture # NoCapture /\ capture.html = "failed") => "could not save html" \in log
    /\ (capture # NoCapture /\ capture.shot = "failed") => "could not save screenshot" \in log
    /\ \A m \in Methods : ret[m] = "raised" => capture = NoCapture

\* the capture after the Management fallback could not create the directory
C10_Witness ==
    /\ capture.site = "management_not_found"
    /\ capture.mkdir = "failed"
    /\ ret.encryption_keystore_backup = "False"

\* the error messages of the steps that fail because their element could not
\* be resolved, as logged by the step
ResolutionFailures ==
    {"Username field not found", "Password field not found", "Login button not found",
     "Failed to click Save Configuration", "Failed to click Execute button",
     "Failed to click Create New button", "Failed to click Settings button",
     "Failed to find/click by any method"}

\* C11: whenever a step fails because its UI element could not be resolved
\* (username, password, login button, Save Configuration, Execute, Create
\* New, Settings, Management, Encryption, Backup Keystore File), a diagnostic
\* capture is attempted before the step returns False.
C11_ResolutionFailureCaptured ==
    (log \cap ResolutionFailures # {}) => capture # NoCapture

\* the moves that completed for one kind of artifact
MovedOf(kind) == {i \in 1..Len(moved) : moved[i][2] = kind}

Printed(line) == \E i \in 1..Len(printed) : printed[i] = line

\* C12: when os.makedirs or shutil.move raises, the action returns False and
\* its success message is not printed: a success line is printed only for an
\* artifact whose move completed and whose file is in the target directory.
C12_FailedMoveIsNotSuccess ==
    /\ \A m \in {"backup_workflow", "encryption_keystore_backup"} :
          (pc = "main_after_" \o m /\ "Failed to move/rename" \in log) =>
              (ret[m] = "False" /\ MovedOf(KindOf(m)) = {})
    /\ Printed("Backup workflow completed!") =>
          /\ ret.backup_workflow = "True"
          /\ \E i \in MovedOf("config") : moved[i][3] \in archive.config
    /\ Printed("Encryption keystore backup completed!") =>
          /\ ret.encryption_keystore_backup = "True"
          /\ \E i \in MovedOf("keystore") : moved[i][3] \in archive.keystore
    /\ Printed("Backup workflow failed!") => MovedOf("config") = {}
    /\ Printed("Encryption keystore backup failed!") => MovedOf("keystore") = {}

\* the configuration backup was archived, the move of the keystore file then
\* failed: the run ended reporting the keystore backup as failed
C12_Witness ==
    /\ pc = "done"
    /\ printed = <<"Backup workflow completed!", "Encryption keystore backup failed!">>
    /\ Len(moved) = 1
    /\ archive.keystore # {}

Called(m) == \E i \in 1..Len(calls) : calls[i] = m

\* C13: login() is invoked only after start_driver() completed successfully,
\* backup_workflow() only after login() returned True, and nothing is invoked
\* after close(); when the driver cannot be started neither login nor a
\* backup action is attempted.
C13_SessionOrder ==
    /\ \A i \in 1..Len(calls) :
          /\ calls[i] = "start_driver" => i = 1
          /\ calls[i] = "login" =>
                (i = 2 /\ calls[1] = "start_driver" /\ driver \in {"live", "quit"})
          /\ calls[i] = "backup_workflow" =>
                (i = 3 /\ calls[2] = "login" /\ ret.login = "True")
          /\ calls[i] = "encryption_keystore_backup" =>
                (i = 4 /\ calls[3] = "backup_workflow" /\ ret.backup_workflow = "True")
          /\ calls[i] = "close" => (i = Len(calls) /\ pc = "done")
    /\ (Called("start_driver") /\ driver = "None") =>
          /\ ~Called("login")
          /\ ~Called("backup_workflow")
          /\ ~Called("encryption_keystore_backup")
          /\ \A m \in Methods : ret[m] = "none"

\* start_driver failed: the run ended with close() as the only other call
C13_Witness ==
    /\ pc = "done"
    /\ driver = "None"
    /\ calls = <<"start_driver", "close">>

\* C14: once the driver has started, the process ends with exit status 0
\* after close(), whether login, backup_workflow and
\* encryption_keystore_backup returned True, returned False or raised.
C14_ExitZeroOnceStarted ==
    /\ driver \in {"live", "quit"} => exit_status = 0
    /\ (pc = "done" /\ driver \in {"live", "quit"}) =>
          (close_count = 1 /\ calls[Len(calls)] = "close")

\* encryption_keystore_backup raised, main() caught it and close() ran
C14_Witness ==
    /\ pc = "done"
    /\ driver \in {"live", "quit"}
    /\ ret.encryption_keystore_backup = "raised"
    /\ exit_status = 0

\* C15: the exit status is non-zero when the password file cannot be read,
\* when the browser is unsupported, when the Edge executable is missing and
\* when the WebDriver fails to initialise; when start_driver is what failed,
\* close() has run before the process ends.
C15_InvocationErrorsExitNonZero ==
    /\ (pc = "done" /\ browser = "") => exit_status = 2
    /\ (pc = "done" /\ browser # "" /\ ~Constructed) => exit_status = 1
    /\ (Called("start_driver") /\ driver = "None") => exit_status = 1
    /\ (pc = "done" /\ Called("start_driver") /\ driver = "None") =>
          (close_count = 1 /\ calls = <<"start_driver", "close">>)
    /\ (pc = "done" /\ ~Constructed) => close_count = 0
    /\ exit_status # 0 => (~Called("login") /\ driver = "None")

\* Edge was asked for and start_driver ended in sys.exit(1); close() ran
C15_Witness ==
    /\ pc = "done"
    /\ browser = "edge"
    /\ Called("start_driver")
    /\ driver = "None"
    /\ exit_status = 1
    /\ close_count = 1

\* the positions of login() after the consent check
LoginFieldPcs == {"login_username", "login_username_end", "login_password",
                  "login_button", "login_click", "login_capture"}

\* C16: in login() the consent check comes before any field lookup: when the
\* phrase is on the page and Accept cannot be clicked, login returns False
\* with no field lookup attempted; when the phrase is absent or the body
\* cannot be read (or Accept was clicked), login goes on to the username
\* selectors.
C16_ConsentBeforeFields ==
    [][ /\ pc = "login_consent" =>
              /\ attempts = <<>> /\ ~btn
              /\ "Could not click Accept button" \in log' =>
                    /\ pc' = "main_after_login"
                    /\ ret'.login = "False"
                    /\ attempts' = <<>> /\ ~btn'
              /\ "Could not click Accept button" \notin log' =>
                    /\ pc' = "login_username"
                    /\ ret'.login = "none"
        /\ (pc' \in LoginFieldPcs /\ pc \notin LoginFieldPcs) =>
              (pc = "login_consent" /\ pc' = "login_username")
        /\ (pc \in LoginFieldPcs) => "Could not click Accept button" \notin log
      ]_vars

\* the phrase was on the page and Accept could not be clicked: login returned
\* False before any selector was tried
C16_Witness ==
    /\ pc = "main_after_login"
    /\ "Could not click Accept button" \in log
    /\ ret.login = "False"
    /\ attempts = <<>>

\* C17: login() returns True whenever the username field, the password field
\* and the login button were resolved and the button was clicked, with no
\* check of the page that follows: from the statement after the click, the
\* only way out of login() is `return True`.
C17_ClickedMeansTrue ==
    [][pc = "login_capture" => (pc' = "main_after_login" /\ ret'.login = "True")]_vars

(***************************************************************************)
(* The password file on its own: main() from line 785 to line 792 for      *)
(* every text of at most MaxText characters.                               *)
(***************************************************************************)
PwInit ==
    /\ pc = "read_password"
    /\ browser \in {"chrome", "edge"}
    /\ password_file \in Texts(MaxText)
    /\ InitRest

PwNext == ReadPassword

PasswordSpec == PwInit /\ [][PwNext]_vars

\* the text up to its first line terminator
FirstLine(s) ==
    IF \E i \in 1..Len(s) : CharAt(s, i) = "\n"
    THEN SubSeq(s, 1, (CHOOSE i \in 1..Len(s) :
                          /\ CharAt(s, i) = "\n"
                          /\ \A j \in 1..(i - 1) : CharAt(s, j) # "\n") - 1)
    ELSE s

\* C20: with --password-file the password is the first line of the file with
\* surrounding whitespace trimmed; what follows the first line is not part
\* of the password.
C20_PasswordIsFirstLine ==
    [][ReadPasswordFile(TRUE) =>
          password' = Strip(FirstLine(UniversalNewlines(password_file)))]_vars

\* the statement after each selector loop, and where it goes when the
\* element variable is still None: the text-scan fallback or `return False`
ChainEndPcs == {"login_username_end", "login_click", "bw_execute_end", "bw_create_end",
                "ks_management_end", "ks_encryption_end", "ks_keystore_end"}

NotFoundPc ==
    CASE pc \in {"login_username_end", "login_click"} -> "main_after_login"
      [] pc \in {"bw_execute_end", "bw_create_end"} -> "main_after_backup_workflow"
      [] pc = "ks_management_end" -> "ks_management_scan"
      [] pc = "ks_encryption_end" -> "ks_encryption_scan"
      [] pc = "ks_keystore_end" -> "ks_keystore_scan"
      [] OTHER -> "none"

\* C19: a chain in which no locator matches terminates: while it runs,
\* locators 1..k have been tried once each in order with k below the length
\* of the list; when it ends every locator of the list has been tried exactly
\* once, in order, the number of waits is the length of the list, the
\* element variable is None, and the step goes to its fallback or returns
\* False.
C19_NoMatchTerminates ==
    [][ /\ (pc \in PresenceChainPcs \cup ClickChainPcs /\ matched = 0) =>
              /\ attempts = [i \in 1..Len(attempts) |-> i]
              /\ ~btn /\ hit = 0 /\ ~clicked
              /\ IF pc \in ChainEndPcs
                 THEN Len(attempts) = ChainLength
                 ELSE Len(attempts) < ChainLength
        /\ (pc \in ChainEndPcs /\ matched = 0 /\ pc' # pc) =>
              /\ pc' = NotFoundPc
              /\ pc \in {"login_username_end", "login_click"} => ret'.login = "False"
              /\ pc \in {"bw_execute_end", "bw_create_end"} => ret'.backup_workflow = "False"
              /\ attempts' = attempts
      ]_vars

\* none of the seven username selectors matched
C19_Witness ==
    /\ pc = "login_username_end"
    /\ matched = 0
    /\ attempts = <<1, 2, 3, 4, 5, 6, 7>>
    /\ ~btn

(***************************************************************************)
(* The end-to-end scenario: the same actions with the environment held to  *)
(* a session in which the consent page is absent, every chain resolves at  *)
(* some locator, and no other driver or file-system call raises until      *)
(* backup_workflow has returned.  Files appear in ~/Downloads as in Spec,   *)
(* so the download may come at any poll tick, too early, or never.  What    *)
(* main() does after backup_workflow (the dashboard, the keystore backup,   *)
(* close) is as in Spec.                                                    *)
(***************************************************************************)
\* this iteration of the chain did not raise, a resolved element was
\* clicked, and the chain does not end unresolved
Resolving(endpc) ==
    /\ pc' \in {pc, endpc}
    /\ btn' <=> hit' # 0
    /\ pc' = endpc => hit' # 0

ScenarioSteps ==
    \/ ParseArguments /\ pc' = "read_password"
    \/ ReadPassword /\ pc' = "construct"
    \/ StartDriver /\ driver' = "live"
    \/ LoginNavigate /\ pc' = "login_consent" /\ log' = log
    \/ LoginConsent /\ log' = log
    \/ LoginTryUsername /\ Resolving("login_username_end")
    \/ LoginUsernameEnd /\ pc' = "login_password"
    \/ LoginPassword /\ pc' = "login_button"
    \/ LoginTryButton /\ Resolving("login_click")
    \/ LoginClick /\ pc' = "login_capture"
    \/ LoginCapture /\ ~CaptureFailed(capture')
    \/ MainAfterLogin
    \/ BwNavigate /\ pc' = "bw_save"
    \/ BwSaveConfig /\ pc' = "bw_execute"
    \/ BwTryExecute /\ Resolving("bw_execute_end")
    \/ BwExecuteEnd
    \/ BwTryCreate /\ Resolving("bw_create_end")
    \/ BwCreateEnd
    \/ BwSnapshot /\ pc' = "bw_poll"
    \/ BwPoll /\ pc' # "main_after_backup_workflow"
    \/ BwTimedOut
    \/ BwMove /\ moved' # moved
    \/ MainAfterBackup
    \/ Dashboard
    \/ KsSettings
    \/ KsEscape
    \/ KsTryManagement
    \/ KsManagementEnd
    \/ KsManagementScan
    \/ KsManagementFound
    \/ KsTryEncryption
    \/ KsEncryptionEnd
    \/ KsEncryptionScan
    \/ KsEncryptionFound
    \/ KsTryKeystore
    \/ KsKeystoreEnd
    \/ KsKeystoreScan
    \/ KsSnapshot
    \/ KsPoll
    \/ KsTimedOut
    \/ KsMove
    \/ MainAfterKeystore
    \/ Close
    \/ FileAppears

ScenarioNext ==
    \/ Construct
    \/ ScenarioSteps

ScenarioSpec == Init /\ [][ScenarioNext]_vars

\* C18: end to end, with the consent page absent, every chain resolving at
\* some locator and the move succeeding: login() returns True; when a
\* matching download is seen at one of the poll ticks, backup_workflow
\* returns True, the file is in the target directory under the computed
\* name and 'Backup workflow completed!' is printed; backup_workflow fails
\* only when all 60 poll ticks passed without a new matching file, and then
\* 'Backup workflow failed!' is all that is printed and the run ends with
\* close().
C18_EndToEndSuccess ==
    /\ ret.login \in {"none", "True"}
    /\ ret.backup_workflow \in {"none", "True", "False"}
    /\ pc = "main_after_backup_workflow" =>
          IF backup_file # ""
          THEN /\ ret.backup_workflow = "True"
               /\ polls <= timeout \div poll_interval
               /\ backup_file \notin downloads
               /\ Len(moved) = 1
               /\ moved[1][1] = backup_file
               /\ moved[1][3] \in archive.config
               /\ moved[1][3] \in ExpectedNames["config", ExpectedIp, backup_file]
          ELSE /\ ret.backup_workflow = "False"
               /\ polls = timeout \div poll_interval
               /\ elapsed = timeout
    /\ (ret.backup_workflow = "True" /\ pc # "main_after_backup_workflow") =>
          /\ printed # <<>> /\ printed[1] = "Backup workflow completed!"
          /\ Cardinality(MovedOf("config")) = 1
          /\ moved[1][2] = "config"
          /\ moved[1][3] \in archive.config
          /\ moved[1][3] \in ExpectedNames["config", ExpectedIp, moved[1][1]]
    /\ (ret.backup_workflow = "False" /\ pc # "main_after_backup_workflow") =>
          /\ pc \in {"close", "done"}
          /\ printed = <<"Backup workflow failed!">>
          /\ moved = <<>>
          /\ archive.config = {}
          /\ ret.encryption_keystore_backup = "none"
    /\ pc = "dashboard" => ret.backup_workflow = "True"
    /\ pc = "done" => (close_count = 1 /\ ret.backup_workflow # "none")

\* the download was seen at the third listing, after two sleeps of the
\* watcher, and archived from 10.0.0.5
C18_Witness ==
    /\ pc = "main_after_backup_workflow"
    /\ ret.backup_workflow = "True"
    /\ polls = 3
    /\ slept = 2 * poll_interval
    /\ "unity_backup_2024-01-05_090307-IP-10_0_0_5.cfg" \in archive.config

(***************************************************************************)
(* Element waits.                                                          *)
(***************************************************************************)
\* self.wait = WebDriverWait(self.driver, 10), made once by start_driver
session_wait == 10

\* the wait built inside the Execute loop: WebDriverWait(self.driver, 30)
execute_wait == 30

\* the positions at which the next statement is an element wait
WaitPcs == {"login_consent", "login_username", "login_password", "login_button",
            "bw_save", "bw_execute", "bw_create", "encryption_keystore_backup",
            "ks_management", "ks_encryption", "ks_keystore"}

\* the timeout of the wait performed at position p
WaitTimeout(p) == IF p = "bw_execute" THEN execute_wait ELSE session_wait

\* C21: every element wait of login, backup_workflow and
\* encryption_keystore_backup uses the timeout of the session's self.wait.
C21_OneTimeoutEverywhere ==
    pc \in WaitPcs => WaitTimeout(pc) = session_wait

\* the paths this run wrote under the target directory of each kind
ArchivedPaths ==
    [k \in {"config", "keystore"} |->
        {TargetPath(IF k = "config" THEN ConfigTargetDir ELSE KeystoreTargetDir, n) :
            n \in archive[k]}]

\* C22: within one run the archive paths are unique: the configuration path
\* and the keystore path are never equal, and the run archives at most one
\* file under each target directory.
C22_UniquePathsPerRun ==
    /\ Cardinality(archive.config) <= 1
    /\ Cardinality(archive.keystore) <= 1
    /\ Cardinality(MovedOf("config")) <= 1
    /\ Cardinality(MovedOf("keystore")) <= 1
    /\ ArchivedPaths["config"] \cap ArchivedPaths["keystore"] = {}
    /\ ConfigTargetDir # KeystoreTargetDir

\* one run archived a configuration backup and a keystore backup
C22_Witness ==
    /\ Len(moved) = 2
    /\ Cardinality(archive.config) = 1
    /\ Cardinality(archive.keystore) = 1

KsScanPcs == {"ks_management_scan", "ks_encryption_scan", "ks_keystore_scan"}

\* encryption_keystore_backup returned from inside a fallback scan
ScanGaveUp ==
    /\ pc = "main_after_encryption_keystore_backup"
    /\ ~btn
    /\ attempts # <<>>

\* the candidates are visited in order, the first one whose click completes
\* ends the scan, and a candidate that is not displayed or whose click raises
\* is passed over
ScanInOrder ==
    /\ Len(scan) <= MaxCandidates
    /\ scan # <<>> => ~btn
    /\ \A i \in 1..Len(scan) : scan[i] = "clicked" => i = Len(scan)
    /\ pc \in KsScanPcs =>
          /\ \A i \in 1..Len(scan) : scan[i] \in {"skip", "clickfail"}
          /\ ~clicked
    /\ pc \in {"ks_management_found", "ks_encryption_found"} =>
          /\ scan # <<>> /\ scan[Len(scan)] = "clicked"
          /\ clicked
    /\ ScanGaveUp =>
          /\ \A i \in 1..Len(scan) : scan[i] \in {"skip", "clickfail"}
          /\ ~clicked
          /\ ret.encryption_keystore_backup = "False"

\* C23: the scan visits the candidates in order, clicks the first candidate
\* whose click succeeds and none after it, and passes over a candidate whose
\* click raises; whenever the scan clicks no candidate, diagnostics are
\* captured before the function returns False.
C23_ScanCapturesWheneverNoClick ==
    /\ ScanInOrder
    /\ ScanGaveUp => capture # NoCapture

\* C24: backup_workflow goes from the Execute step to the Create New step
\* only if a click on Execute completed, and from the Create New step to
\* the download wait only if a click on Create New completed; when an
\* Execute locator resolves but every click raises, it returns False.
C24_AdvanceOnlyAfterClick ==
    [][ /\ (pc = "bw_execute_end" /\ pc' = "bw_create") => clicked
        /\ (pc = "bw_create_end" /\ pc' = "bw_snapshot") => clicked
        /\ (pc = "bw_execute_end" /\ ~clicked) =>
              (pc' = "main_after_backup_workflow" /\ ret'.backup_workflow = "False")
      ]_vars

KsChainEndPcs == {"ks_management_end", "ks_encryption_end", "ks_keystore_end"}

\* C25: for Management, Encryption and Backup Keystore File the text-scan
\* fallback runs whenever no locator of the chain produced a completed
\* click, and the function goes on to the next step only after a completed
\* click on the target; a locator that resolved an element whose click
\* failed is not a success.
C25_FallbackUnlessClicked ==
    [][ (pc \in KsChainEndPcs /\ pc' # pc) =>
            IF clicked
            THEN pc' \in {"ks_encryption", "ks_keystore", "ks_snapshot"}
            ELSE pc' = NotFoundPc
      ]_vars

\* position of method m in the order of calls (0: not called)
CallIndex(m) == IF Called(m) THEN CHOOSE i \in 1..Len(calls) : calls[i] = m ELSE 0

\* C26: main() runs the actions in a fixed order with gating: the
\* configuration backup is attempted before the keystore backup;
\* encryption_keystore_backup is invoked if and only if login() and
\* backup_workflow() both returned True; a failed dashboard navigation
\* between the two does not stop the keystore backup from being attempted.
C26_GatedOrder ==
    /\ Called("encryption_keystore_backup") =>
          /\ Called("backup_workflow")
          /\ CallIndex("backup_workflow") < CallIndex("encryption_keystore_backup")
          /\ ret.login = "True"
          /\ ret.backup_workflow = "True"
    /\ (pc \in {"close", "done"} /\ ret.login = "True" /\ ret.backup_workflow = "True") =>
          Called("encryption_keystore_backup")
    /\ pc \in {"dashboard", "encryption_keystore_backup"} =>
          /\ ret.login = "True"
          /\ ret.backup_workflow = "True"
          /\ ~Called("encryption_keystore_backup")
    /\ "Failed to navigate to Dashboard" \in log => pc = "encryption_keystore_backup"

\* the dashboard navigation failed and control is at the call of
\* encryption_keystore_backup
C26_Witness ==
    /\ pc = "encryption_keystore_backup"
    /\ "Failed to navigate to Dashboard" \in log
    /\ printed = <<"Backup workflow completed!">>

\* the positions of the download wait and of the move that follows it
DownloadWaitPcs == {"bw_snapshot", "bw_poll", "bw_move", "ks_snapshot", "ks_poll", "ks_move"}

\* C27: within each action the controls are clicked in a fixed order, each
\* only after the previous one succeeded, and the download wait never
\* starts if an earlier control of the action failed: while the action
\* waits for its download, the click on its last control (Create New,
\* Backup Keystore File) has completed.
C27_WaitOnlyAfterControlsClicked ==
    pc \in DownloadWaitPcs => clicked

\* the file names of the model that satisfy each action's predicate, worked
\* out by hand from the claim
ExpectedConfigFiles == {"b.cfg", "old.cfg", "Unity_BACKUP.zip"}
ExpectedKeystoreFiles == {"keys.LBB", "old.lbb"}

\* the predicates on names outside the model's directory
C28_Examples ==
    /\ ConfigQualifies("Report.HTML") /\ ConfigQualifies("x.CFG")
    /\ ConfigQualifies("my-BackUp.tar") /\ ConfigQualifies("backup")
    /\ ~ConfigQualifies("page.htm") /\ ~ConfigQualifies("cfg.txt")
    /\ ~ConfigQualifies("keys.lbb") /\ ~ConfigQualifies("a.cfg.part")
    /\ KeystoreQualifies("K.Lbb") /\ KeystoreQualifies(".lbb")
    /\ ~KeystoreQualifies("keys.lbb.tmp") /\ ~KeystoreQualifies("lbb")
    /\ ~KeystoreQualifies("unity_backup.cfg")
    /\ \A f \in ArrivingFiles \cup UNION InitialDownloads :
          /\ ConfigQualifies(f) <=> f \in ExpectedConfigFiles
          /\ KeystoreQualifies(f) <=> f \in ExpectedKeystoreFiles

\* C28: the keystore action archives only files whose lower-cased name ends
\* with '.lbb', the configuration action only files whose lower-cased name
\* ends with '.cfg' or '.html' or contains 'backup'; no file failing the
\* action's predicate is moved to that action's target directory.
C28_OnlyQualifyingArchived ==
    /\ \A i \in 1..Len(moved) :
          /\ moved[i][2] = "config" => moved[i][1] \in ExpectedConfigFiles
          /\ moved[i][2] = "keystore" => moved[i][1] \in ExpectedKeystoreFiles
    /\ pc = "bw_move" => backup_file \in ExpectedConfigFiles
    /\ pc = "ks_move" => backup_file \in ExpectedKeystoreFiles
    /\ \A n \in archive.config :
          \E f \in ExpectedConfigFiles \cap DOMAIN ExpectedExt :
              n \in ExpectedNames["config", ExpectedIp, f]
    /\ \A n \in archive.keystore :
          \E f \in ExpectedKeystoreFiles \cap DOMAIN ExpectedExt :
              n \in ExpectedNames["keystore", ExpectedIp, f]
    /\ C28_Examples

\* b.cfg arrived while the keystore action waited: it was not taken, and the
\* run archived nothing under the keystore directory
C28_Witness ==
    /\ pc = "main_after_encryption_keystore_backup"
    /\ "b.cfg" \in downloads \ before_files
    /\ elapsed = timeout
    /\ archive.keystore = {}

(***************************************************************************)
(* The host identifier: the scenario above for more unity_url arguments.   *)
(***************************************************************************)
\* unity_url arguments: addresses and names, with and without scheme, port,
\* path and query
UrlInputs == {"10.0.0.5", "http://192.168.1.20", "https://10.0.0.5:443/cas/login",
              "unity01.lab", "httpd01.lab", "https://1node.lab", "https://10.0.0.5./",
              "https://unity01.lab/cas/login?service=https://10.0.0.5/"}

UrlNext ==
    \/ ConstructFrom(UrlInputs)
    \/ ScenarioSteps

UrlSpec == Init /\ [][UrlNext]_vars

\* length of the scheme the URL starts with (0: neither http:// nor https://)
SchemeLen(url) ==
    IF StartsWith(url, "https://") THEN 8 ELSE IF StartsWith(url, "http://") THEN 7 ELSE 0

\* the maximal run of digits and dots at the start of the host
HostRun(url) ==
    LET k == SchemeLen(url)
        n == CHOOSE n \in 0..(Len(url) - k) :
                 /\ \A i \in (k + 1)..(k + n) : IsDigitOrDot(CharAt(url, i))
                 /\ (k + n = Len(url) \/ ~IsDigitOrDot(CharAt(url, k + n + 1)))
    IN  IF k = 0 THEN "" ELSE SubSeq(url, k + 1, k + n)

\* the identifier the claim describes
ClaimedHostId(url) ==
    IF HostRun(url) = "" THEN "unknown_ip" ELSE Replace(HostRun(url), ".", "_")

\* C29: the host identifier in the archive name is the maximal run of digits
\* and dots right after the scheme of the normalised URL, dots replaced by
\* underscores; it is 'unknown_ip' when the host does not begin with a digit
\* or a dot.
C29_HostIdentifier ==
    \A i \in 1..Len(moved) :
        \E t \in Clocks :
            moved[i][3] = (IF moved[i][2] = "config" THEN ConfigPrefix ELSE KeystorePrefix)
                              \o "_" \o DateStr(t) \o "-IP-"
                              \o ClaimedHostId(unity_url) \o SplitExt(moved[i][1])

=============================================================================
